---- MODULE Spec2Model ----
(***************************************************************************)
(* The conversation session engine of obelisca-divergencia:                *)
(* ChatSession (chatSession.py) with the part of ChatTab (chatTab.py) that *)
(* consumes its result and hands the history to the conversation store.    *)
(*                                                                         *)
(* Text is a sequence of one-character strings, or of longer strings that  *)
(* stand for an indivisible piece of text (a file marker, a path, an error *)
(* message).  A turn is a record [role, content].                          *)
(***************************************************************************)
EXTENDS Integers, Sequences, FiniteSets, TLC

VARIABLES
    conversationHistory,     \* ChatSession.conversationHistory
    lastTotalTokens,         \* ChatSession.lastTotalTokens
    maxContextTokens,        \* ChatSession.maxContextTokens
    conversationId,          \* ChatSession.conversationId (None or the row id)
    pc,                      \* position of the session's sendMessage call
    userText,                \* argument of the sendMessage call in progress
    filePathList,            \* argument of the sendMessage call in progress
    apiConversationHistory,  \* the outbound list of the call in progress
    response,                \* what the remote client produced for the call
    result,                  \* the string sendMessage returned
    summary,                 \* what the latest generateSummary returned
    db,                      \* ChatSession.db is set (TRUE) or None (FALSE)
    tokenCalls,              \* values passed to updateConversationTokens by the call
    dbRow,                   \* the conversation's row in the store
    historyAtCall,           \* the history a direct trimConversationHistory call found
    summaryCall,             \* the latest generateSummary: what it sent and received
    query,                   \* the latest countTokens or getFirstUserMessage call and its value
    fileF,                   \* the file at path "f" on disk
    readCall,                \* the call of the file reader in progress
    conversations,           \* table conversations: id -> title
    files,                   \* table files: id -> file_path
    conversation_attachements, \* table conversation_attachements: rows <<conversation_id, file_id>>
    sqlite_sequence,         \* the AUTOINCREMENT counters of conversations and files
    storeCall,               \* the call of the store that has just returned
    environ,                 \* os.environ: the API key variables
    deploymentConfig,        \* the deployment configuration handed to ChatSession
    systemPrompt,            \* MainWindow.systemPrompt, the setup prompt of every session
    construction,            \* how far ChatSession.__init__ got and what it produced
    ui,                      \* ChatTab: which widgets are enabled
    workers                  \* ChatTab: the workers started and not yet completed

sessionVars == <<conversationHistory, lastTotalTokens, maxContextTokens, conversationId,
                 db, pc, userText, filePathList, apiConversationHistory, response,
                 result, summary, tokenCalls, dbRow, historyAtCall, summaryCall,
                 query>>

readerVars == <<fileF, readCall>>

storeVars == <<conversations, files, conversation_attachements, sqlite_sequence,
               storeCall>>

configVars == <<environ, deploymentConfig, systemPrompt, construction>>

tabVars == <<ui, workers>>

vars == <<sessionVars, readerVars, storeVars, configVars, tabVars>>

\* Optional values: None is the empty tuple, a present value x is <<x>>.
None == <<>>
Some(x) == <<x>>

----------------------------------------------------------------------------
(* Bounds of the model *)

\* longest text the user types
MaxTextLen == 2

\* sendMessage is not started on a history of this many turns or more
MaxTurns == 4

\* the small budgets are MinBudget..MaxBudget, next to the default budget
MinBudget == 2

MaxBudget == 3

\* longest history found in the row of a reopened chat
MaxLoadLen == 2

\* longest history the trimming specification starts from
MaxTrimLen == 5

\* most entries in the path list handed to readFilesContent
MaxEntries == 2

\* most conversations ever added to the store
MaxConversations == 2

\* most file records ever added to the store
MaxFileRecords == 3

\* most paths in one call of recordAttachmentsForConversation
MaxAttached == 2

\* onSendClicked starts no worker when this many are started and not completed
MaxWorkers == 2

\* longest stored history the query specification reopens
MaxQueryLen == 3

----------------------------------------------------------------------------
(* Text *)

Whitespace == {" ", "\n"}

RECURSIVE lstrip(_)
lstrip(s) ==
    IF s # <<>> /\ Head(s) \in Whitespace THEN lstrip(Tail(s)) ELSE s

RECURSIVE rstrip(_)
rstrip(s) ==
    IF s # <<>> /\ s[Len(s)] \in Whitespace
    THEN rstrip(SubSeq(s, 1, Len(s) - 1))
    ELSE s

strip(s) == rstrip(lstrip(s))

RECURSIVE SeqsUpTo(_, _)
SeqsUpTo(S, n) ==
    IF n = 0 THEN {<<>>}
    ELSE LET shorter == SeqsUpTo(S, n - 1)
         IN  shorter \cup {Append(s, x) : s \in shorter, x \in S}

RECURSIVE Concat(_)
Concat(ss) == IF ss = <<>> THEN <<>> ELSE Head(ss) \o Concat(Tail(ss))

Contains(s, x) == \E i \in 1..Len(s) : s[i] = x

----------------------------------------------------------------------------
(* The files on disk.  A path is a sequence of components; the disk is a   *)
(* fixed tree that holds one file of every kind the reader distinguishes,  *)
(* next to the file "f", whose size, extension and content vary.           *)

FOLDER_BLACKLIST == {".git", ".github", ".svn", ".idea", ".vscode", "__pycache__"}

BINARY_EXTENSIONS ==
    {".png", ".jpg", ".jpeg", ".gif", ".bmp", ".zip", ".tar", ".gz", ".url",
     ".db", ".sqlite", ".exe", ".dll", ".pyd"}

FILE_MARKER_START == "<|file|>"
FILE_MARKER_END == "<|/file|>"

maxFileSize == 5 * 1024 * 1024

TextFile(t) ==
    [kind |-> "file", size |-> Len(t), ext |-> ".txt", utf8 |-> TRUE,
     extractable |-> TRUE, text |-> t]

\* the fixed tree
FixedDisk ==
    (<<"a.txt">> :> TextFile(<<"x">>)) @@
    (<<"e.txt">> :> TextFile(<<>>)) @@
    (<<"big.txt">> :> [TextFile(<<"x">>) EXCEPT !.size = maxFileSize + 1]) @@
    (<<"bad.txt">> :> [TextFile(<<"x">>) EXCEPT !.utf8 = FALSE]) @@
    (<<"img.PNG">> :> [TextFile(<<"x">>) EXCEPT !.ext = ".PNG"]) @@
    (<<"doc.docx">> :> [TextFile(<<"p", "\n", "q">>) EXCEPT !.ext = ".docx"]) @@
    (<<"bad.docx">> :>
        [TextFile(<<"x">>) EXCEPT !.ext = ".docx", !.extractable = FALSE]) @@
    (<<"bad.pdf">> :>
        [TextFile(<<"x">>) EXCEPT !.ext = ".pdf", !.extractable = FALSE]) @@
    (<<"dir">> :>
        [kind |-> "dir", dirs |-> <<".git", "sub">>, files |-> <<"a.txt">>]) @@
    (<<"dir", "a.txt">> :> TextFile(<<"y">>)) @@
    (<<"dir", ".git">> :>
        [kind |-> "dir", dirs |-> <<>>, files |-> <<"ignored.txt">>]) @@
    (<<"dir", ".git", "ignored.txt">> :> TextFile(<<"i">>)) @@
    (<<"dir", "sub">> :>
        [kind |-> "dir", dirs |-> <<"__pycache__">>, files |-> <<"b.txt">>]) @@
    (<<"dir", "sub", "b.txt">> :> TextFile(<<"z">>)) @@
    (<<"dir", "sub", "__pycache__">> :>
        [kind |-> "dir", dirs |-> <<>>, files |-> <<"c.txt">>]) @@
    (<<"dir", "sub", "__pycache__", "c.txt">> :> TextFile(<<"i">>))

Disk ==
    [path \in {<<"f">>} \cup DOMAIN FixedDisk |->
        IF path = <<"f">> THEN fileF ELSE FixedDisk[path]]

exists(path) == path \in DOMAIN Disk

isdir(path) == exists(path) /\ Disk[path].kind = "dir"

lower(ext) ==
    CASE ext = ".PNG" -> ".png"
      [] ext = ".DOCX" -> ".docx"
      [] ext = ".PDF" -> ".pdf"
      [] ext = "Azure" -> "azure"
      [] ext = "OpenAI" -> "openai"
      [] ext = "Unknown" -> "unknown"
      [] OTHER -> ext

RECURSIVE JoinWith(_, _)
JoinWith(parts, sep) ==
    IF parts = <<>> THEN <<>>
    ELSE IF Len(parts) = 1 THEN Head(parts)
    ELSE Head(parts) \o <<sep>> \o JoinWith(Tail(parts), sep)

RECURSIVE Split(_, _)
Split(s, sep) ==
    IF ~Contains(s, sep) THEN <<s>>
    ELSE LET i == CHOOSE j \in 1..Len(s) :
                      s[j] = sep /\ \A k \in 1..(j - 1) : s[k] # sep
         IN  <<SubSeq(s, 1, i - 1)>> \o Split(SubSeq(s, i + 1, Len(s)), sep)

PathText(path) == JoinWith([i \in 1..Len(path) |-> <<path[i]>>], "/")

relpath(path, baseDir) == SubSeq(path, Len(baseDir) + 1, Len(path))

extractTextFromDocx(file) == IF file.extractable THEN file.text ELSE <<>>

extractTextFromPdf(file) == IF file.extractable THEN file.text ELSE <<>>

\* a reader that compares the extension as it is spelled
_readSingleFile_caseSensitive(filePath, baseDir) ==
    IF ~exists(filePath) \/ isdir(filePath) THEN <<>>
    ELSE LET file == Disk[filePath]
             header ==
                 IF baseDir # <<>>
                 THEN <<"\n", FILE_MARKER_START, "[Content from ">>
                      \o PathText(baseDir) \o <<"/">>
                      \o PathText(relpath(filePath, baseDir)) \o <<"]:", "\n">>
                 ELSE <<"\n", FILE_MARKER_START, "[Content from ">>
                      \o PathText(filePath) \o <<"]:", "\n">>
             footer == <<FILE_MARKER_END>>
         IN  IF file.size > maxFileSize THEN <<>>
             ELSE IF file.ext \in BINARY_EXTENSIONS THEN <<>>
             ELSE IF file.ext = ".docx"
                  THEN header \o extractTextFromDocx(file) \o footer \o <<"\n">>
             ELSE IF file.ext = ".pdf"
                  THEN header \o extractTextFromPdf(file) \o footer \o <<"\n">>
             ELSE IF ~file.utf8 THEN <<>>
             ELSE header \o file.text \o footer \o <<"\n">>

_readSingleFile(filePath, baseDir) ==
    IF ~exists(filePath) \/ isdir(filePath) THEN <<>>
    ELSE LET file == Disk[filePath]
             header ==
                 IF baseDir # <<>>
                 THEN <<"\n", FILE_MARKER_START, "[Content from ">>
                      \o PathText(baseDir) \o <<"/">>
                      \o PathText(relpath(filePath, baseDir)) \o <<"]:", "\n">>
                 ELSE <<"\n", FILE_MARKER_START, "[Content from ">>
                      \o PathText(filePath) \o <<"]:", "\n">>
             footer == <<FILE_MARKER_END>>
         IN  IF file.size > maxFileSize THEN <<>>
             ELSE IF lower(file.ext) \in BINARY_EXTENSIONS THEN <<>>
             ELSE IF lower(file.ext) = ".docx"
                  THEN header \o extractTextFromDocx(file) \o footer \o <<"\n">>
             ELSE IF lower(file.ext) = ".pdf"
                  THEN header \o extractTextFromPdf(file) \o footer \o <<"\n">>
             ELSE IF ~file.utf8 THEN <<>>
             ELSE header \o file.text \o footer \o <<"\n">>

\* What _readSingleFile does on its way, in order: os.path.getsize, the
\* reason it logs for skipping the file, Document, extract_text or open.
fileAccesses(filePath) ==
    IF ~exists(filePath) THEN <<"getsize">>
    ELSE IF isdir(filePath) THEN <<"getsize", "open">>
    ELSE LET f == Disk[filePath]
         IN  IF f.size > maxFileSize THEN <<"getsize", "too large">>
             ELSE IF lower(f.ext) \in BINARY_EXTENSIONS
                  THEN <<"getsize", "binary file">>
             ELSE IF lower(f.ext) = ".docx" THEN <<"getsize", "Document">>
             ELSE IF lower(f.ext) = ".pdf" THEN <<"getsize", "extract_text">>
             ELSE <<"getsize", "open">>

\* a walk that descends into every subdirectory
RECURSIVE walk_unfiltered(_, _)
walk_unfiltered(root, baseDir) ==
    LET d == Disk[root]
    IN  Concat([i \in 1..Len(d.files) |->
                    _readSingleFile(Append(root, d.files[i]), baseDir)])
        \o Concat([i \in 1..Len(d.dirs) |->
                       walk_unfiltered(Append(root, d.dirs[i]), baseDir)])

RECURSIVE walk(_, _)
walk(root, baseDir) ==
    LET d == Disk[root]
        kept == SelectSeq(d.dirs, LAMBDA dirName : dirName \notin FOLDER_BLACKLIST)
    IN  Concat([i \in 1..Len(d.files) |->
                    _readSingleFile(Append(root, d.files[i]), baseDir)])
        \o Concat([i \in 1..Len(kept) |-> walk(Append(root, kept[i]), baseDir)])

\* a reader that takes every entry as it stands between the commas
readFilesContent_unstripped(filePathsStr) ==
    LET filePaths == Split(filePathsStr, ",")
        fragment(entry) ==
            LET filePath == entry
            IN  IF filePath = <<>> THEN <<>>
                ELSE IF ~exists(filePath) THEN <<>>
                ELSE IF isdir(filePath) THEN walk(filePath, filePath)
                ELSE _readSingleFile(filePath, <<>>)
    IN  Concat([i \in 1..Len(filePaths) |-> fragment(filePaths[i])])

readFilesContent(filePathsStr) ==
    LET filePaths == Split(filePathsStr, ",")
        fragment(entry) ==
            LET filePath == strip(entry)
            IN  IF filePath = <<>> THEN <<>>
                ELSE IF ~exists(filePath) THEN <<>>
                ELSE IF isdir(filePath) THEN walk(filePath, filePath)
                ELSE _readSingleFile(filePath, <<>>)
    IN  Concat([i \in 1..Len(filePaths) |-> fragment(filePaths[i])])

----------------------------------------------------------------------------
(* Turns, token counting and trimming *)

\* the roles sendMessage writes into a history
Roles == {"user", "assistant"}

Turn(role, content) == [role |-> role, content |-> content]

\* len(self.encoding.encode(text)): every character of the model's texts is
\* one token.
encodeLen(text) == Len(text)

\* message.get("content", "")
contentOf(message) ==
    IF "content" \in DOMAIN message THEN message.content ELSE <<>>

\* a count that leaves out the first turn
countTokens_afterFirst(history) ==
    LET total[i \in 1..(Len(history) + 1)] ==
            IF i <= 2 THEN 0
            ELSE total[i - 1] + encodeLen(contentOf(history[i - 1]))
    IN  total[Len(history) + 1]

RECURSIVE countTokens(_)
countTokens(history) ==
    IF history = <<>> THEN 0
    ELSE encodeLen(contentOf(Head(history))) + countTokens(Tail(history))

\* a pop that takes the oldest turn of all
pop1_first(history) == Tail(history)

\* self.conversationHistory.pop(1)
pop1(history) == <<history[1]>> \o SubSeq(history, 3, Len(history))

\* a loop that stops one turn early
RECURSIVE trim_keep3(_, _)
trim_keep3(history, budget) ==
    IF countTokens(history) > budget
    THEN IF Len(history) > 3
         THEN trim_keep3(pop1(history), budget)
         ELSE history
    ELSE history

\* a loop that evicts the newest turn instead of the oldest
RECURSIVE trim_newest(_, _)
trim_newest(history, budget) ==
    IF countTokens(history) > budget
    THEN IF Len(history) > 2
         THEN trim_newest(SubSeq(history, 1, Len(history) - 1), budget)
         ELSE history
    ELSE history

\* a loop that goes on until one turn is left
RECURSIVE trim_keep1(_, _)
trim_keep1(history, budget) ==
    IF countTokens(history) > budget
    THEN IF Len(history) > 1
         THEN trim_keep1(pop1(history), budget)
         ELSE history
    ELSE history

\* a call that evicts one turn and returns
trim_once(history, budget) ==
    IF countTokens(history) > budget /\ Len(history) > 2
    THEN pop1(history)
    ELSE history

RECURSIVE trimConversationHistory(_, _)
trimConversationHistory(history, budget) ==
    IF countTokens(history) > budget
    THEN IF Len(history) > 2
         THEN trimConversationHistory(pop1(history), budget)
         ELSE history
    ELSE history

\* a scan that keeps the last user turn it meets
getFirstUserMessage_last(history) ==
    IF \E i \in 1..Len(history) : history[i].role = "user"
    THEN LET i == CHOOSE j \in 1..Len(history) :
                      /\ history[j].role = "user"
                      /\ \A k \in (j + 1)..Len(history) : history[k].role # "user"
         IN  Some(strip(contentOf(history[i])))
    ELSE None

getFirstUserMessage(history) ==
    IF \E i \in 1..Len(history) : history[i].role = "user"
    THEN LET i == CHOOSE j \in 1..Len(history) :
                      /\ history[j].role = "user"
                      /\ \A k \in 1..(j - 1) : history[k].role # "user"
         IN  Some(strip(contentOf(history[i])))
    ELSE None

getConversationText(history) ==
    JoinWith([i \in 1..Len(history) |-> history[i].content], "\n")

----------------------------------------------------------------------------
(* The inputs of the model *)

SystemPrompt == <<"s">>

DefaultMaxContextTokens == 100000

RowId == 1

UserTexts == SeqsUpTo({" ", "a"}, MaxTextLen)

\* Attachment lists of the tab: no file, a text file, a skipped file, a
\* directory next to a file with a blank entry between them.
FilePathLists ==
    { <<>>,
      << <<"img.PNG">> >>,
      << <<"dir">>, <<" ">>, <<" ", "e.txt">> >> }

\* a reply of two tokens that begins with whitespace
ReplyTexts == { <<" ", "r">> }

\* a response without usage, a response that reports 9 tokens
UsageReports == {None, Some(9)}

ErrorMessages == { <<"boom">> }

NoResponse == [kind |-> "none", reply |-> <<>>, usage |-> None, message |-> <<>>]

Completion(reply, usage) ==
    [kind |-> "ok", reply |-> reply, usage |-> usage, message |-> <<>>]

Failure(message) ==
    [kind |-> "error", reply |-> <<>>, usage |-> None, message |-> message]

NoSummaryCall == [messages |-> <<>>, response |-> NoResponse]

NoQuery == [op |-> "none", value |-> None]

Budgets == (MinBudget..MaxBudget) \cup {DefaultMaxContextTokens}

LoadTurns == {Turn(r, <<"a">>) : r \in Roles}

LoadableHistories == SeqsUpTo(LoadTurns, MaxLoadLen)

PlaceholderTitle == <<"Conversation", " ", "1">>

NewRow(history) ==
    [title |-> PlaceholderTitle, conversation_history |-> history, tokens |-> 0]

\* what dbRow holds when the row of the conversation is not in the table
NoRow == [title |-> <<>>, conversation_history |-> <<>>, tokens |-> 0]

----------------------------------------------------------------------------
(* The file reader called on its own *)

NoReadCall ==
    [op |-> "none", entries |-> <<>>, path |-> <<>>, baseDir |-> <<>>,
     text |-> <<>>, accesses |-> <<>>]

ReaderAtRest == fileF = TextFile(<<"x">>) /\ readCall = NoReadCall

\* The sizes, extensions and contents of the file "f".
FileSizes == {1, maxFileSize, maxFileSize + 1}

FileExtensions == {".txt", ".png", ".PNG", ".gz", ".docx", ".DOCX", ".pdf"}

FileTexts == { <<>>, <<"x">> }

VaryingFiles ==
    [kind : {"file"}, size : FileSizes, ext : FileExtensions, utf8 : BOOLEAN,
     extractable : BOOLEAN, text : FileTexts]

\* The paths handed to _readSingleFile: every file of the disk and one path
\* that does not exist, each with no base directory or with the directory it
\* is in.
MissingPath == <<"missing.txt">>

FilePaths == {p \in DOMAIN Disk : Disk[p].kind = "file"} \cup {MissingPath}

BaseDirsOf(filePath) ==
    {<<>>} \cup {SubSeq(filePath, 1, n) : n \in 1..(Len(filePath) - 1)}

\* The entries between the commas of the string handed to readFilesContent.
PathEntries ==
    { <<>>, <<" ">>, <<"f">>, <<" ", "f", " ">>, <<"e.txt">>, MissingPath,
      <<"dir">>, <<"dir", "sub">>, <<"dir", ".git">> }

\* self._readSingleFile(filePath, baseDir)
readSingleFileCall(filePath, baseDir) ==
    /\ readCall.op = "none"
    /\ readCall' = [op |-> "_readSingleFile", entries |-> <<>>,
                    path |-> filePath, baseDir |-> baseDir,
                    text |-> _readSingleFile(filePath, baseDir),
                    accesses |-> fileAccesses(filePath)]
    /\ UNCHANGED <<fileF, sessionVars, storeVars, configVars, tabVars>>

\* self.readFilesContent(",".join(entries))
readFilesContentCall(entries) ==
    /\ readCall.op = "none"
    /\ readCall' = [op |-> "readFilesContent", entries |-> entries,
                    path |-> JoinWith(entries, ","), baseDir |-> <<>>,
                    text |-> readFilesContent(JoinWith(entries, ",")),
                    accesses |-> <<>>]
    /\ UNCHANGED <<fileF, sessionVars, storeVars, configVars, tabVars>>

readReturn ==
    /\ readCall.op # "none"
    /\ readCall' = NoReadCall
    /\ UNCHANGED <<fileF, sessionVars, storeVars, configVars, tabVars>>

----------------------------------------------------------------------------
(* ConversationDatabase: the tables files and conversation_attachements    *)
(* next to conversations.  A table is the sequence of its rows.            *)

NoStoreCall == [op |-> "none", conversationId |-> 0, filePaths |-> <<>>]

EmptyStore ==
    [conversations |-> <<>>, files |-> <<>>, conversation_attachements |-> <<>>,
     sqlite_sequence |-> [conversations |-> 0, files |-> 0]]

\* the tables as one value
store ==
    [conversations |-> conversations, files |-> files,
     conversation_attachements |-> conversation_attachements,
     sqlite_sequence |-> sqlite_sequence]

StoreAtRest ==
    /\ conversations = EmptyStore.conversations
    /\ files = EmptyStore.files
    /\ conversation_attachements = EmptyStore.conversation_attachements
    /\ sqlite_sequence = EmptyStore.sqlite_sequence
    /\ storeCall = NoStoreCall

\* the store MainWindow.createNewChatTab leaves for the tab: the row of its
\* conversation, no file, no link
StoreWithRow ==
    /\ conversations = <<[id |-> RowId, title |-> PlaceholderTitle]>>
    /\ files = EmptyStore.files
    /\ conversation_attachements = EmptyStore.conversation_attachements
    /\ sqlite_sequence = [conversations |-> RowId, files |-> 0]
    /\ storeCall = NoStoreCall

column(table, name) == {table[i][name] : i \in 1..Len(table)}

\* a table whose id column is a plain INTEGER PRIMARY KEY: the next id is
\* one more than the largest id in the table
addConversation_rowid(st, title) ==
    LET ids == column(st.conversations, "id")
        id == IF ids = {} THEN 1
              ELSE (CHOOSE n \in ids : \A other \in ids : other <= n) + 1
    IN  [st EXCEPT !.conversations = Append(@, [id |-> id, title |-> title]),
                   !.sqlite_sequence.conversations = @ + 1]

\* INSERT INTO conversations: AUTOINCREMENT gives the next id, never a used one
addConversation(st, title) ==
    LET id == st.sqlite_sequence.conversations + 1
    IN  [st EXCEPT !.conversations = Append(@, [id |-> id, title |-> title]),
                   !.sqlite_sequence.conversations = id]

\* SELECT id FROM files WHERE file_path = ?
fileIdOf(st, filePath) ==
    IF \E i \in 1..Len(st.files) : st.files[i].file_path = filePath
    THEN Some(st.files[CHOOSE i \in 1..Len(st.files) :
                           st.files[i].file_path = filePath].id)
    ELSE None

\* an insert that does not look for the path first (no UNIQUE, no OR IGNORE)
addFileRecord_always(st, filePath) ==
    LET id == st.sqlite_sequence.files + 1
    IN  [st EXCEPT !.files = Append(@, [id |-> id, file_path |-> filePath]),
                   !.sqlite_sequence.files = id]

\* addFileRecord: INSERT OR IGNORE INTO files; file_path is UNIQUE
addFileRecord(st, filePath) ==
    IF fileIdOf(st, filePath) # None THEN st
    ELSE LET id == st.sqlite_sequence.files + 1
         IN  [st EXCEPT !.files = Append(@, [id |-> id, file_path |-> filePath]),
                        !.sqlite_sequence.files = id]

\* recordConversationAttachment: INSERT OR IGNORE INTO
\* conversation_attachements; (conversation_id, file_id) is the primary key
\* and conversation_id references conversations(id) with foreign keys ON, so
\* a link to a conversation that does not exist raises, which is logged
recordConversationAttachment(st, convId, fileId) ==
    LET link == [conversation_id |-> convId, file_id |-> fileId]
    IN  IF \E i \in 1..Len(st.conversation_attachements) :
               st.conversation_attachements[i] = link
        THEN st
        ELSE IF convId \notin column(st.conversations, "id") THEN st
        ELSE [st EXCEPT !.conversation_attachements = Append(@, link)]

RECURSIVE recordAttachmentsForConversation(_, _, _)
recordAttachmentsForConversation(st, convId, filePaths) ==
    IF filePaths = <<>> THEN st
    ELSE LET withFile == addFileRecord(st, Head(filePaths))
             fileId == fileIdOf(withFile, Head(filePaths))
             linked == IF fileId # None /\ fileId[1] # 0
                       THEN recordConversationAttachment(
                                withFile, convId, fileId[1])
                       ELSE withFile
         IN  recordAttachmentsForConversation(linked, convId,
                                              Tail(filePaths))

\* a cleanup that empties the files table
deleteOrphanedFiles_all(st) == [st EXCEPT !.files = <<>>]

\* DELETE FROM files WHERE id NOT IN (SELECT DISTINCT file_id FROM
\* conversation_attachements)
deleteOrphanedFiles(st) ==
    LET linkedIds == column(st.conversation_attachements, "file_id")
    IN  [st EXCEPT !.files = SelectSeq(@, LAMBDA row : row.id \in linkedIds)]

\* DELETE FROM conversations WHERE id = ?, with ON DELETE CASCADE on the
\* links, then deleteOrphanedFiles
deleteConversationById(st, convId) ==
    deleteOrphanedFiles(
        [st EXCEPT
            !.conversations = SelectSeq(@, LAMBDA row : row.id # convId),
            !.conversation_attachements =
                SelectSeq(@, LAMBDA row : row.conversation_id # convId)])

\* getConversationById: the row, or None
getConversationById(st, convId) ==
    IF convId \in column(st.conversations, "id")
    THEN Some(st.conversations[CHOOSE i \in 1..Len(st.conversations) :
                                   st.conversations[i].id = convId])
    ELSE None

\* UPDATE conversations SET title = ? WHERE id = ?
updateConversationTitle(st, convId, newTitle) ==
    LET rows == st.conversations
    IN  [st EXCEPT !.conversations =
            [i \in 1..Len(rows) |->
                IF rows[i].id = convId
                THEN [rows[i] EXCEPT !.title = newTitle]
                ELSE rows[i]]]

\* ChatTab.removeAttachedFile: the link of the file to the conversation is
\* deleted, then deleteOrphanedFiles
removeAttachedFile(st, convId, filePath) ==
    LET fileId == fileIdOf(st, filePath)
    IN  deleteOrphanedFiles(
            IF fileId = None THEN st
            ELSE [st EXCEPT !.conversation_attachements =
                     SelectSeq(@, LAMBDA row :
                         ~(row.conversation_id = convId
                           /\ row.file_id = fileId[1]))])

setStore(st) ==
    /\ conversations' = st.conversations
    /\ files' = st.files
    /\ conversation_attachements' = st.conversation_attachements
    /\ sqlite_sequence' = st.sqlite_sequence

\* The calls of the store.  storeCall names the call that returned last.
AttachedPaths == {"p", "q"}

ConversationIds == 1..MaxConversations

addConversationCall(title) ==
    /\ sqlite_sequence.conversations < MaxConversations
    /\ setStore(addConversation(store, title))
    /\ storeCall' = [op |-> "addConversation",
                     conversationId |-> sqlite_sequence.conversations + 1,
                     filePaths |-> <<>>]
    /\ UNCHANGED <<sessionVars, readerVars, configVars, tabVars>>

recordAttachmentsCall(convId, filePaths) ==
    /\ sqlite_sequence.files + Len(filePaths) <= MaxFileRecords
    /\ setStore(recordAttachmentsForConversation(store, convId, filePaths))
    /\ storeCall' = [op |-> "recordAttachmentsForConversation",
                     conversationId |-> convId, filePaths |-> filePaths]
    /\ UNCHANGED <<sessionVars, readerVars, configVars, tabVars>>

deleteConversationCall(convId) ==
    /\ setStore(deleteConversationById(store, convId))
    /\ storeCall' = [op |-> "deleteConversationById", conversationId |-> convId,
                     filePaths |-> <<>>]
    /\ UNCHANGED <<sessionVars, readerVars, configVars, tabVars>>

removeAttachedFileCall(convId, filePath) ==
    /\ setStore(removeAttachedFile(store, convId, filePath))
    /\ storeCall' = [op |-> "removeAttachedFile", conversationId |-> convId,
                     filePaths |-> <<filePath>>]
    /\ UNCHANGED <<sessionVars, readerVars, configVars, tabVars>>

----------------------------------------------------------------------------
(* config.initOpenAiClient and the construction of a ChatSession *)

Raised(type, message) ==
    [client |-> None, error |-> Some([type |-> type, message |-> message]),
     calls |-> <<>>]

Returned(client, calls) == [client |-> Some(client), error |-> None, calls |-> calls]

\* `not value` for an optional string: absent or empty
falsy(value) == value = None \/ value = Some("")

\* a client that is built before the configuration is looked at
initOpenAiClient_lateCheck(config, env) ==
    LET deployment_type == lower(config.type)
        api_key == IF deployment_type = "azure" THEN env.AZURE_OPENAI_API_KEY
                   ELSE env.OPENAI_API_KEY
    IN  IF falsy(api_key)
        THEN Raised("ValueError", <<"API key environment variable is not set.">>)
        ELSE IF deployment_type = "azure"
        THEN Returned([class |-> "AzureOpenAI", api_type |-> "azure",
                       api_key |-> api_key[1], api_base |-> config.endpoint],
                      <<"AzureOpenAI">>)
        ELSE IF deployment_type = "openai"
        THEN Returned([class |-> "OpenAI", api_type |-> "openai",
                       api_key |-> api_key[1], api_base |-> config.endpoint],
                      <<"OpenAI">>)
        ELSE Raised("ValueError", <<"Unknown deployment type: ", deployment_type>>)

initOpenAiClient(config, env) ==
    LET deployment_type == lower(config.type)
        api_key == IF deployment_type = "azure" THEN env.AZURE_OPENAI_API_KEY
                   ELSE env.OPENAI_API_KEY
    IN  IF falsy(api_key)
        THEN Raised("ValueError", <<"API key environment variable is not set.">>)
        ELSE IF deployment_type = "azure"
        THEN IF config.endpoint = "" \/ config.deploymentName = ""
                \/ config.apiVersion = ""
             THEN Raised("ValueError",
                         <<"Missing required Azure OpenAI configuration.">>)
             ELSE Returned([class |-> "AzureOpenAI", api_type |-> "azure",
                            api_key |-> api_key[1], api_base |-> config.endpoint],
                           <<"AzureOpenAI">>)
        ELSE IF deployment_type = "openai"
        THEN IF config.endpoint = "" \/ config.deploymentName = ""
             THEN Raised("ValueError",
                         <<"deploymentName is not set for OpenAI configuration.">>)
             ELSE Returned([class |-> "OpenAI", api_type |-> "openai",
                            api_key |-> api_key[1], api_base |-> config.endpoint],
                           <<"OpenAI">>)
        ELSE Raised("ValueError", <<"Unknown deployment type: ", deployment_type>>)

NotConstructed == [stage |-> "none", client |-> None, error |-> None, calls |-> <<>>]

\* ChatSession.__init__ as far as the client: an error of initOpenAiClient
\* leaves __init__ at its first statement
newChatSession(config, env) ==
    LET made == initOpenAiClient(config, env)
    IN  [stage |-> IF made.error # None THEN "raised" ELSE "session",
         client |-> made.client, error |-> made.error, calls |-> made.calls]

\* The configuration and the environment of a session that exists.
DefaultDeployment ==
    [type |-> "openai", endpoint |-> "e", deploymentName |-> "d", apiVersion |-> ""]

DefaultEnviron == [AZURE_OPENAI_API_KEY |-> None, OPENAI_API_KEY |-> Some("k")]

ConfigAtRest ==
    /\ environ = DefaultEnviron
    /\ deploymentConfig = DefaultDeployment
    /\ systemPrompt = SystemPrompt
    /\ construction = newChatSession(DefaultDeployment, DefaultEnviron)

\* The configurations and environments a session is constructed with.
DeploymentTypes == {"azure", "Azure", "openai", "unknown"}

DeploymentConfigs ==
    [type : DeploymentTypes, endpoint : {"", "e"}, deploymentName : {"", "d"},
     apiVersion : {"", "v"}]

KeyValues == {None, Some(""), Some("k")}

Environs == [AZURE_OPENAI_API_KEY : KeyValues, OPENAI_API_KEY : KeyValues]

\* ChatSession(systemPrompt, deploymentConfig): __init__ raises what
\* initOpenAiClient raises, before it sets any field; otherwise it sets the
\* fields of the new session
ChatSessionInit ==
    LET made == newChatSession(deploymentConfig, environ)
    IN  /\ construction.stage = "none"
        /\ construction' = made
        /\ IF made.stage = "session"
           THEN /\ conversationHistory' = <<Turn("user", systemPrompt)>>
                /\ maxContextTokens' = DefaultMaxContextTokens
           ELSE UNCHANGED <<conversationHistory, maxContextTokens>>
        /\ UNCHANGED <<lastTotalTokens, conversationId, db, pc, userText,
                       filePathList, apiConversationHistory, response, result,
                       summary, tokenCalls, dbRow, historyAtCall, summaryCall,
                       query>>
        /\ UNCHANGED <<environ, deploymentConfig, systemPrompt, readerVars, storeVars,
                       tabVars>>

----------------------------------------------------------------------------
(* ChatTab: the widgets that start a send *)

\* the widgets as resetAfterSend leaves them (and as the tab opens)
UiReady ==
    [sendButton |-> TRUE, attachButton |-> TRUE, attachDirectoryButton |-> TRUE,
     attachedFilesList |-> TRUE, userInput |-> TRUE, busyIndicator |-> FALSE]

\* widgets that still take the text and Ctrl+Enter while a send is running
UiBusy_inputEnabled ==
    [sendButton |-> FALSE, attachButton |-> FALSE, attachDirectoryButton |-> FALSE,
     attachedFilesList |-> FALSE, userInput |-> TRUE, busyIndicator |-> TRUE]

\* the widgets as onSendClicked leaves them (lines 351-356)
UiBusy ==
    [sendButton |-> FALSE, attachButton |-> FALSE, attachDirectoryButton |-> FALSE,
     attachedFilesList |-> FALSE, userInput |-> FALSE, busyIndicator |-> TRUE]

TabAtRest == ui = UiReady /\ workers = <<>>

\* a completion that leaves the widgets as they are
resetAfterSend_skipped(widgets) == widgets

\* ChatTab.resetAfterSend (lines 417-427)
resetAfterSend(widgets) == UiReady

\* WorkerRunnable.run (lines 28-33): what the run of the oldest worker has
\* emitted.  sendMessage returns a string for a reply and for a failed remote
\* call alike, so the run emits finished with that string.
emittedSignals ==
    IF workers # <<>> /\ pc \in {"replied", "failed"}
    THEN <<[signal |-> "finished", text |-> result[1]]>>
    ELSE <<>>

----------------------------------------------------------------------------
(* ChatSession *)

\* The state of a session when its tab opens.  MainWindow.createNewChatTab:
\* a new ChatSession without conversationId and a new row holding its
\* history.  MainWindow.onConversationSelected: a ChatSession with the row's
\* id, loaded with whatever history the row holds.  MainWindow always passes
\* the store as db.
Init ==
    /\ \/ /\ conversationId = None
          /\ conversationHistory = <<Turn("user", SystemPrompt)>>
       \/ /\ conversationId = Some(RowId)
          /\ conversationHistory \in LoadableHistories
    /\ dbRow = NewRow(conversationHistory)
    /\ lastTotalTokens = 0
    /\ maxContextTokens \in Budgets
    /\ db = TRUE
    /\ pc = "idle"
    /\ userText = <<>>
    /\ filePathList = <<>>
    /\ apiConversationHistory = <<>>
    /\ response = NoResponse
    /\ result = None
    /\ summary = None
    /\ summaryCall = NoSummaryCall
    /\ query = NoQuery
    /\ tokenCalls = <<>>
    /\ historyAtCall = <<>>
    /\ ReaderAtRest
    /\ StoreWithRow
    /\ ConfigAtRest
    /\ TabAtRest

\* loadConversationHistory(conversation["conversation_history"]), as both of
\* its callers in MainWindow call it
loadConversationHistory ==
    /\ pc = "idle"
    /\ conversationHistory' = dbRow.conversation_history
    /\ summary' = None
    /\ summaryCall' = NoSummaryCall
    /\ query' = NoQuery
    /\ UNCHANGED <<lastTotalTokens, maxContextTokens, conversationId, db, pc,
                   userText, filePathList, apiConversationHistory, response,
                   result, tokenCalls, dbRow, historyAtCall>>
    /\ UNCHANGED <<readerVars, storeVars, configVars, tabVars>>

\* A direct call of trimConversationHistory, as the tests make it, and its
\* return.
trimCall ==
    /\ pc = "idle"
    /\ historyAtCall' = conversationHistory
    /\ conversationHistory' =
           trimConversationHistory(conversationHistory, maxContextTokens)
    /\ pc' = "trimmed"
    /\ summary' = None
    /\ summaryCall' = NoSummaryCall
    /\ query' = NoQuery
    /\ UNCHANGED <<lastTotalTokens, maxContextTokens, conversationId, db,
                   userText, filePathList, apiConversationHistory, response,
                   result, tokenCalls, dbRow>>
    /\ UNCHANGED <<readerVars, storeVars, configVars, tabVars>>

trimReturn ==
    /\ pc = "trimmed"
    /\ pc' = "idle"
    /\ historyAtCall' = <<>>
    /\ UNCHANGED <<conversationHistory, lastTotalTokens, maxContextTokens,
                   conversationId, db, userText, filePathList,
                   apiConversationHistory, response, result, summary,
                   summaryCall, query,
                   tokenCalls, dbRow>>
    /\ UNCHANGED <<readerVars, storeVars, configVars, tabVars>>

fullUserMessage(text, paths) ==
    LET filePathsStr == JoinWith(paths, ",")
        attachmentContent ==
            IF strip(filePathsStr) # <<>> THEN readFilesContent(filePathsStr)
            ELSE <<>>
    IN  IF attachmentContent # <<>>
        THEN strip(text) \o <<"\n">> \o strip(attachmentContent)
        ELSE strip(text)

\* a history turn that keeps the text as typed
redacted_unstripped(text, paths) == text

\* a history turn that carries the message sent to the remote model
redacted_withFiles(text, paths) == fullUserMessage(text, paths)

\* the turn content kept in conversationHistory (line 207)
redactedUserMessage(text, paths) == strip(text)

\* an outbound list that is the history object itself, not a copy of it: it
\* receives both appends and is trimmed with it
outbound_aliased(history, text, paths) ==
    trimConversationHistory(
        history \o <<Turn("user", fullUserMessage(text, paths)),
                     Turn("user", strip(text))>>,
        maxContextTokens)

\* list(self.conversationHistory) and the append to the copy
outboundHistory(history, text, paths) ==
    Append(history, Turn("user", fullUserMessage(text, paths)))

\* sendMessage up to the remote call (lines 202-226)
sendMessageBegin(text, paths) ==
    /\ pc = "idle"
    /\ Len(conversationHistory) < MaxTurns
    /\ userText' = text
    /\ filePathList' = paths
    /\ apiConversationHistory' = outboundHistory(conversationHistory, text, paths)
    /\ conversationHistory' =
           trimConversationHistory(
               Append(conversationHistory,
                      Turn("user", redactedUserMessage(text, paths))),
               maxContextTokens)
    /\ pc' = "calling"
    /\ tokenCalls' = <<>>
    /\ response' = NoResponse
    /\ result' = None
    /\ summary' = None
    /\ summaryCall' = NoSummaryCall
    /\ query' = NoQuery
    /\ UNCHANGED <<lastTotalTokens, maxContextTokens, conversationId, db, dbRow,
                   historyAtCall>>
    /\ UNCHANGED <<readerVars, storeVars, configVars, tabVars>>

persists == db /\ conversationId # None

\* WHERE id = ?: the row of the conversation is in the table
rowStored == getConversationById(store, RowId) # None

\* a reply appended without the second trimming
historyAfterReply_untrimmed(history, reply, budget) ==
    Append(history, Turn("assistant", reply))

historyAfterReply(history, reply, budget) ==
    trimConversationHistory(Append(history, Turn("assistant", reply)), budget)

\* a token count that is reset when the response reports no usage
usageTokens_reset(usage, previous) == IF usage # None THEN usage[1] ELSE 0

usageTokens(usage, previous) == IF usage # None THEN usage[1] ELSE previous

\* token updates in the opposite order: the reported usage is written last
tokenUpdates_usageLast(usage, newTokenCount) ==
    (IF persists THEN <<newTokenCount>> ELSE <<>>)
    \o (IF usage # None /\ persists THEN <<usage[1]>> ELSE <<>>)

\* the values handed to updateConversationTokens, in call order (lines
\* 236-240 and 254-255)
tokenUpdates(usage, newTokenCount) ==
    (IF usage # None /\ persists THEN <<usage[1]>> ELSE <<>>)
    \o (IF persists THEN <<newTokenCount>> ELSE <<>>)

\* the remote call returns a completion (lines 229-257)
sendMessageSuccess(reply, usage) ==
    LET newHistory ==
            historyAfterReply(conversationHistory, reply, maxContextTokens)
        newTokenCount == countTokens(newHistory)
        calls == tokenUpdates(usage, newTokenCount)
    IN  /\ pc = "calling"
        /\ response' = Completion(reply, usage)
        /\ lastTotalTokens' = usageTokens(usage, lastTotalTokens)
        /\ conversationHistory' = newHistory
        /\ tokenCalls' = calls
        /\ dbRow' = IF calls # <<>> /\ rowStored
                    THEN [dbRow EXCEPT !.tokens = calls[Len(calls)]]
                    ELSE dbRow
        /\ result' = Some(reply)
        /\ pc' = "replied"
        /\ UNCHANGED <<maxContextTokens, conversationId, db, userText,
                       filePathList, apiConversationHistory, summary,
                       summaryCall, query,
                       historyAtCall>>
        /\ UNCHANGED <<readerVars, storeVars, configVars, tabVars>>

ErrorPrefix == "Error during API call: "

\* an error string without the prefix
errorMessage_bare(message) == message

errorMessage(message) == <<ErrorPrefix>> \o message

\* the remote call raises (lines 258-261)
sendMessageFail(message) ==
    /\ pc = "calling"
    /\ response' = Failure(message)
    /\ result' = Some(errorMessage(message))
    /\ pc' = "failed"
    /\ UNCHANGED <<conversationHistory, lastTotalTokens, maxContextTokens,
                   conversationId, db, userText, filePathList,
                   apiConversationHistory, summary,
                   summaryCall, query, tokenCalls, dbRow, historyAtCall>>
    /\ UNCHANGED <<readerVars, storeVars, configVars, tabVars>>

\* a summary that hands the error text to the caller
summaryOf_errorText(resp) ==
    IF resp.kind = "ok" THEN Some(strip(resp.reply)) ELSE Some(errorMessage(resp.message))

summaryOf(resp) == IF resp.kind = "ok" THEN Some(strip(resp.reply)) ELSE None

SummaryInstruction == "Summarize the following conversation in seven words or less:\n"

summaryPrompt(history) == <<SummaryInstruction>> \o getConversationText(history)

\* generateSummary, called between two sends; summary is its return value,
\* kept until the next call of a method of the session
generateSummary(resp) ==
    /\ pc = "idle"
    /\ summaryCall' = [messages |-> <<Turn("user", summaryPrompt(conversationHistory))>>,
                       response |-> resp]
    /\ summary' = summaryOf(resp)
    /\ query' = NoQuery
    /\ UNCHANGED <<conversationHistory, lastTotalTokens, maxContextTokens,
                   conversationId, db, pc, userText, filePathList,
                   apiConversationHistory, response, result, tokenCalls, dbRow,
                   historyAtCall>>
    /\ UNCHANGED <<readerVars, storeVars, configVars, tabVars>>

\* countTokens(), called between two sends (MainWindow calls it for the
\* token display); query holds its return value until the next call of a
\* method of the session
countTokensCall ==
    /\ pc = "idle"
    /\ query' = [op |-> "countTokens", value |-> Some(countTokens(conversationHistory))]
    /\ summary' = None
    /\ summaryCall' = NoSummaryCall
    /\ UNCHANGED <<conversationHistory, lastTotalTokens, maxContextTokens,
                   conversationId, db, pc, userText, filePathList,
                   apiConversationHistory, response, result, tokenCalls, dbRow,
                   historyAtCall>>
    /\ UNCHANGED <<readerVars, storeVars, configVars, tabVars>>

\* getFirstUserMessage(), called between two sends
getFirstUserMessageCall ==
    /\ pc = "idle"
    /\ query' = [op |-> "getFirstUserMessage",
                 value |-> getFirstUserMessage(conversationHistory)]
    /\ summary' = None
    /\ summaryCall' = NoSummaryCall
    /\ UNCHANGED <<conversationHistory, lastTotalTokens, maxContextTokens,
                   conversationId, db, pc, userText, filePathList,
                   apiConversationHistory, response, result, tokenCalls, dbRow,
                   historyAtCall>>
    /\ UNCHANGED <<readerVars, storeVars, configVars, tabVars>>

----------------------------------------------------------------------------
(* ChatTab: the completion of the worker *)

\* str.split(): the maximal runs of non-whitespace characters
RECURSIVE split(_)
split(s) ==
    LET t == lstrip(s)
    IN  IF t = <<>> THEN <<>>
        ELSE LET n == IF \E j \in 1..Len(t) : t[j] \in Whitespace
                      THEN (CHOOSE j \in 1..Len(t) :
                                /\ t[j] \in Whitespace
                                /\ \A k \in 1..(j - 1) : t[k] \notin Whitespace) - 1
                      ELSE Len(t)
             IN  <<SubSeq(t, 1, n)>> \o split(SubSeq(t, n + 1, Len(t)))

TitleWords == 7

\* a title that keeps every word
titleOf_allWords(message) == JoinWith(split(message), " ")

titleOf(message) ==
    LET ws == split(message)
    IN  JoinWith(SubSeq(ws, 1, IF Len(ws) < TitleWords THEN Len(ws) ELSE TitleWords),
                 " ")

\* a save that adds the history to what the row holds
updateConversationHistory_appended(row, history) ==
    [row EXCEPT !.conversation_history = @ \o history]

\* UPDATE conversations SET conversation_history = ? on the row found
updateConversationHistory(row, history) ==
    [row EXCEPT !.conversation_history = history]

\* ChatTab.onWorkerFinished: title update, saveConversationHistory,
\* resetAfterSend
onWorkerFinished ==
    LET conversation == getConversationById(store, RowId)
        first == getFirstUserMessage(conversationHistory)
        retitle == /\ conversation # None
                   /\ Head(conversation[1].title) = "Conversation"
                   /\ first # None
                   /\ first[1] # <<>>
    IN  /\ pc \in {"replied", "failed"}
        /\ setStore(IF retitle
                    THEN updateConversationTitle(store, RowId, titleOf(first[1]))
                    ELSE store)
        /\ dbRow' = IF conversation = None THEN dbRow
                    ELSE updateConversationHistory(
                             [dbRow EXCEPT
                                 !.title = IF retitle THEN titleOf(first[1]) ELSE @],
                             conversationHistory)
        /\ pc' = "idle"
        /\ userText' = <<>>
        /\ filePathList' = <<>>
        /\ apiConversationHistory' = <<>>
        /\ response' = NoResponse
        /\ result' = None
        /\ tokenCalls' = <<>>
        /\ UNCHANGED <<conversationHistory, lastTotalTokens, maxContextTokens,
                       conversationId, db, summary,
                       summaryCall, query, historyAtCall>>
        /\ ui' = resetAfterSend(ui)
        /\ workers' = IF workers = <<>> THEN <<>> ELSE Tail(workers)
        /\ UNCHANGED <<readerVars, storeCall, configVars>>

\* MainWindow.deleteSelectedChat for one selected item of the conversations
\* list: the conversation is deleted from the store and its tab is removed
\* from the tab widget; a worker the tab has started goes on
deleteSelectedChat(convId) ==
    /\ convId \in column(conversations, "id")
    /\ setStore(deleteConversationById(store, convId))
    /\ storeCall' = [op |-> "deleteConversationById", conversationId |-> convId,
                     filePaths |-> <<>>]
    /\ dbRow' = IF convId = RowId THEN NoRow ELSE dbRow
    /\ UNCHANGED <<conversationHistory, lastTotalTokens, maxContextTokens,
                   conversationId, db, pc, userText, filePathList,
                   apiConversationHistory, response, result, summary,
                   tokenCalls, historyAtCall, summaryCall, query>>
    /\ UNCHANGED <<readerVars, configVars, tabVars>>

\* ChatTab.onSendClicked, started by a click on the send button or by
\* Ctrl+Enter in the input, which a disabled widget does not deliver: it
\* returns at once for a blank text, otherwise it disables the widgets and
\* starts a worker for the stripped text and the attached files.  A tab that
\* deleteSelectedChat has removed from the tab widget receives neither.
onSendClicked(typed, attached) ==
    /\ rowStored
    /\ ui.sendButton \/ ui.userInput
    /\ strip(typed) # <<>>
    /\ Len(workers) < MaxWorkers
    /\ Len(conversationHistory) < MaxTurns
    /\ ui' = UiBusy
    /\ workers' = Append(workers, [userText |-> strip(typed),
                                   filePathList |-> attached])
    /\ UNCHANGED <<sessionVars, readerVars, storeVars, configVars>>

\* WorkerRunnable.run: the oldest worker calls sendMessage with its text and
\* its files
workerRun ==
    /\ workers # <<>>
    /\ sendMessageBegin(Head(workers).userText, Head(workers).filePathList)

----------------------------------------------------------------------------
(* Specifications *)

Next ==
    \/ \E text \in UserTexts, paths \in FilePathLists : sendMessageBegin(text, paths)
    \/ \E reply \in ReplyTexts, usage \in UsageReports : sendMessageSuccess(reply, usage)
    \/ \E message \in ErrorMessages : sendMessageFail(message)
    \/ onWorkerFinished
    \/ loadConversationHistory
    \/ trimCall
    \/ trimReturn
    \/ \E reply \in ReplyTexts : generateSummary(Completion(reply, None))
    \/ \E message \in ErrorMessages : generateSummary(Failure(message))
    \/ countTokensCall
    \/ getFirstUserMessageCall

Spec == Init /\ [][Next]_vars

\* trimConversationHistory called directly: any history of at most MaxTrimLen
\* turns over TrimTurns (turns of 0, 1 and 2 tokens), any budget up to MaxBudget.
TrimTurns ==
    { Turn("system", <<"s">>),
      Turn("user", <<"A">>), Turn("assistant", <<"B">>),
      Turn("user", <<"C">>), Turn("assistant", <<"D">>),
      Turn("user", <<>>), Turn("assistant", <<"E", "E">>) }

InitTrim ==
    /\ conversationHistory \in SeqsUpTo(TrimTurns, MaxTrimLen)
    /\ lastTotalTokens = 0
    /\ maxContextTokens \in 0..MaxBudget
    /\ conversationId = None
    /\ db = FALSE
    /\ pc = "idle"
    /\ userText = <<>>
    /\ filePathList = <<>>
    /\ apiConversationHistory = <<>>
    /\ response = NoResponse
    /\ result = None
    /\ summary = None
    /\ tokenCalls = <<>>
    /\ historyAtCall = <<>>
    /\ dbRow = NewRow(<<>>)
    /\ summaryCall = NoSummaryCall
    /\ query = NoQuery
    /\ ReaderAtRest
    /\ StoreAtRest
    /\ ConfigAtRest
    /\ TabAtRest

NextTrim == trimCall \/ trimReturn

SpecTrim == InitTrim /\ [][NextTrim]_vars

\* A session as its constructor leaves it, with no call made.
SessionAtRest ==
    /\ conversationHistory = <<Turn("user", SystemPrompt)>>
    /\ lastTotalTokens = 0
    /\ maxContextTokens = DefaultMaxContextTokens
    /\ conversationId = None
    /\ db = FALSE
    /\ pc = "idle"
    /\ userText = <<>>
    /\ filePathList = <<>>
    /\ apiConversationHistory = <<>>
    /\ response = NoResponse
    /\ result = None
    /\ summary = None
    /\ summaryCall = NoSummaryCall
    /\ query = NoQuery
    /\ tokenCalls = <<>>
    /\ historyAtCall = <<>>
    /\ dbRow = NewRow(<<>>)

\* The file reader called on the disk, for every size, extension and content
\* of the file "f".
InitFiles ==
    /\ SessionAtRest
    /\ fileF \in VaryingFiles
    /\ readCall = NoReadCall
    /\ StoreAtRest
    /\ ConfigAtRest
    /\ TabAtRest

NextFiles ==
    \/ \E filePath \in FilePaths : \E baseDir \in BaseDirsOf(filePath) :
           readSingleFileCall(filePath, baseDir)
    \/ \E entries \in SeqsUpTo(PathEntries, MaxEntries) : readFilesContentCall(entries)
    \/ readReturn

SpecFiles == InitFiles /\ [][NextFiles]_vars

\* The store with its tables empty, and every call of it.
InitStore ==
    /\ SessionAtRest
    /\ ReaderAtRest
    /\ StoreAtRest
    /\ ConfigAtRest
    /\ TabAtRest

NextStore ==
    \/ addConversationCall(PlaceholderTitle)
    \/ \E convId \in ConversationIds, filePaths \in SeqsUpTo(AttachedPaths, MaxAttached) :
           recordAttachmentsCall(convId, filePaths)
    \/ \E convId \in ConversationIds : deleteConversationCall(convId)
    \/ \E convId \in ConversationIds, filePath \in AttachedPaths :
           removeAttachedFileCall(convId, filePath)

SpecStore == InitStore /\ [][NextStore]_vars

\* The construction of a session, for every configuration and environment:
\* no session exists before.
InitConfig ==
    /\ conversationHistory = <<>>
    /\ lastTotalTokens = 0
    /\ maxContextTokens = 0
    /\ conversationId = None
    /\ db = FALSE
    /\ pc = "idle"
    /\ userText = <<>>
    /\ filePathList = <<>>
    /\ apiConversationHistory = <<>>
    /\ response = NoResponse
    /\ result = None
    /\ summary = None
    /\ summaryCall = NoSummaryCall
    /\ query = NoQuery
    /\ tokenCalls = <<>>
    /\ historyAtCall = <<>>
    /\ dbRow = NewRow(<<>>)
    /\ environ \in Environs
    /\ deploymentConfig \in DeploymentConfigs
    /\ systemPrompt = SystemPrompt
    /\ construction = NotConstructed
    /\ ReaderAtRest
    /\ StoreAtRest
    /\ TabAtRest

NextConfig == ChatSessionInit

SpecConfig == InitConfig /\ [][NextConfig]_vars

\* The tab: every send is started by onSendClicked and run by a worker.
\* countTokens and getFirstUserMessage on a reopened chat whose row holds any
\* history of at most MaxQueryLen turns over QueryTurns: user turns with
\* padded and with plain content, an assistant turn, a turn without content.
QueryTurns ==
    { Turn("user", <<" ", "a", " ">>), Turn("user", <<"c", "c">>),
      Turn("assistant", <<"b">>), [role |-> "user"] }

InitQuery ==
    /\ conversationHistory = <<Turn("user", SystemPrompt)>>
    /\ dbRow \in {NewRow(h) : h \in SeqsUpTo(QueryTurns, MaxQueryLen)}
    /\ lastTotalTokens = 0
    /\ maxContextTokens \in Budgets
    /\ conversationId = Some(RowId)
    /\ db = TRUE
    /\ pc = "idle"
    /\ userText = <<>>
    /\ filePathList = <<>>
    /\ apiConversationHistory = <<>>
    /\ response = NoResponse
    /\ result = None
    /\ summary = None
    /\ summaryCall = NoSummaryCall
    /\ query = NoQuery
    /\ tokenCalls = <<>>
    /\ historyAtCall = <<>>
    /\ ReaderAtRest
    /\ StoreAtRest
    /\ ConfigAtRest
    /\ TabAtRest

NextQuery ==
    \/ loadConversationHistory
    \/ trimCall
    \/ trimReturn
    \/ countTokensCall
    \/ getFirstUserMessageCall

SpecQuery == InitQuery /\ [][NextQuery]_vars

\* A new chat for every setup prompt of SetupPrompts (one word, blank, eight
\* words with padding), as MainWindow.createNewChatTab opens it, then used
\* through sendMessage alone.
SetupPrompts ==
    { <<"s">>, <<" ">>,
      <<" ", "s", " ", "t", " ", "u", " ", "v", " ", "w", " ", "x", " ", "y",
        " ", "z", " ">> }

TitleTexts == { <<"a">>, <<" ", "a">> }

InitTitle ==
    /\ systemPrompt \in SetupPrompts
    /\ conversationHistory = <<Turn("user", systemPrompt)>>
    /\ dbRow = NewRow(conversationHistory)
    /\ lastTotalTokens = 0
    /\ maxContextTokens \in Budgets
    /\ conversationId = None
    /\ db = TRUE
    /\ pc = "idle"
    /\ userText = <<>>
    /\ filePathList = <<>>
    /\ apiConversationHistory = <<>>
    /\ response = NoResponse
    /\ result = None
    /\ summary = None
    /\ summaryCall = NoSummaryCall
    /\ query = NoQuery
    /\ tokenCalls = <<>>
    /\ historyAtCall = <<>>
    /\ environ = DefaultEnviron
    /\ deploymentConfig = DefaultDeployment
    /\ construction = newChatSession(DefaultDeployment, DefaultEnviron)
    /\ ReaderAtRest
    /\ StoreWithRow
    /\ TabAtRest

NextTitle ==
    \/ \E text \in TitleTexts : sendMessageBegin(text, <<>>)
    \/ \E reply \in ReplyTexts, usage \in UsageReports : sendMessageSuccess(reply, usage)
    \/ \E message \in ErrorMessages : sendMessageFail(message)
    \/ onWorkerFinished
    \/ getFirstUserMessageCall

SpecTitle == InitTitle /\ [][NextTitle]_vars

NextTab ==
    \/ \E typed \in UserTexts, attached \in FilePathLists : onSendClicked(typed, attached)
    \/ workerRun
    \/ \E reply \in ReplyTexts, usage \in UsageReports : sendMessageSuccess(reply, usage)
    \/ \E message \in ErrorMessages : sendMessageFail(message)
    \/ onWorkerFinished

SpecTab == Init /\ [][NextTab]_vars

\* The thread pool runs a started worker, the remote call returns, and the
\* event loop of the main thread delivers the signal of the run.
remoteCallReturns ==
    \/ \E reply \in ReplyTexts, usage \in UsageReports : sendMessageSuccess(reply, usage)
    \/ \E message \in ErrorMessages : sendMessageFail(message)

\* the thread pool can run the oldest started worker: ENABLED <<workerRun>>_vars
workerRunEnabled ==
    /\ workers # <<>>
    /\ pc = "idle"
    /\ Len(conversationHistory) < MaxTurns

\* weak fairness of workerRun, with its enabling condition written out
workerRunFair == []<>(~workerRunEnabled) \/ []<><<workerRun>>_vars

\* the texts of the sends whose completion is followed
LiveTexts == { <<"a">>, <<" ", "a">> }

NextTabLive ==
    \/ \E typed \in LiveTexts, attached \in FilePathLists :
           onSendClicked(typed, attached)
    \/ workerRun
    \/ remoteCallReturns
    \/ onWorkerFinished

SpecTabLive ==
    /\ Init
    /\ [][NextTabLive]_vars
    /\ workerRunFair
    /\ WF_vars(remoteCallReturns)
    /\ WF_vars(onWorkerFinished)

\* A tab next to the conversations list of the main window: sends, new chats
\* with attachments, and deletions of any listed conversation at any moment.
DeleteTexts == { <<"a">> }

DeletePaths == { <<"p">> }

NextDelete ==
    \/ \E typed \in DeleteTexts : onSendClicked(typed, <<>>)
    \/ workerRun
    \/ remoteCallReturns
    \/ onWorkerFinished
    \/ \E convId \in ConversationIds : deleteSelectedChat(convId)
    \/ addConversationCall(PlaceholderTitle)
    \/ \E convId \in ConversationIds, filePaths \in DeletePaths :
           recordAttachmentsCall(convId, filePaths)

SpecDelete == Init /\ [][NextDelete]_vars

----------------------------------------------------------------------------
(* Properties of trimConversationHistory, checked under SpecTrim *)

\* the history without its turns at positions 1..k (position 0 is the first)
withoutOldest(history, k) ==
    IF k = 0 THEN history
    ELSE <<history[1]>> \o SubSeq(history, k + 2, Len(history))

\* C1: for every history and every maxContextTokens that is at least the
\* token count of turn 0 alone, when trimConversationHistory returns either
\* countTokens() <= maxContextTokens or the history has exactly 2 turns.
C1_TrimConverges ==
    ( /\ pc = "trimmed"
      /\ \/ historyAtCall = <<>>
         \/ encodeLen(historyAtCall[1].content) <= maxContextTokens )
    => \/ countTokens(conversationHistory) <= maxContextTokens
       \/ Len(conversationHistory) = 2

\* the saturation case: a long history cut down to 2 turns that still exceed
\* a budget that turn 0 alone fits
C1_Witness ==
    /\ pc = "trimmed"
    /\ Len(historyAtCall) = MaxTrimLen
    /\ encodeLen(historyAtCall[1].content) <= maxContextTokens
    /\ Len(conversationHistory) = 2
    /\ countTokens(conversationHistory) > maxContextTokens

alternates(history) ==
    \A i \in 2..Len(history) :
        history[i].role = IF i % 2 = 0 THEN "user" ELSE "assistant"

\* C7: trimming does not corrupt the alternating role structure: if before
\* trimConversationHistory the turns after index 0 alternate user, assistant,
\* user, ... starting with user, they still do when it returns, for every
\* budget.
C7_TrimKeepsAlternation ==
    (pc = "trimmed" /\ alternates(historyAtCall)) => alternates(conversationHistory)

\* the stop condition of C9 as the claim words it: the remaining turns fit
\* the budget or only 2 turns remain
stopsWithTwo(history, k, budget) ==
    \/ countTokens(withoutOldest(history, k)) <= budget
    \/ Len(withoutOldest(history, k)) = 2

\* the stop condition of the loop: the remaining turns fit the budget or no
\* more than 2 turns remain
stopsWithAtMostTwo(history, k, budget) ==
    \/ countTokens(withoutOldest(history, k)) <= budget
    \/ Len(withoutOldest(history, k)) <= 2

removable(history) == 0..(IF history = <<>> THEN 0 ELSE Len(history) - 1)

\* C9 as claimed: trimConversationHistory removes exactly the turns at
\* positions 1..k of the original history for the smallest k >= 0 such that
\* the remaining turns fit the budget or only 2 turns remain.
C9_OldestFirstOnlyTwo ==
    pc = "trimmed" =>
        \E k \in removable(historyAtCall) :
            /\ conversationHistory = withoutOldest(historyAtCall, k)
            /\ stopsWithTwo(historyAtCall, k, maxContextTokens)
            /\ \A j \in 0..(k - 1) : ~stopsWithTwo(historyAtCall, j, maxContextTokens)

\* C9 amended: trimConversationHistory removes exactly the turns at positions
\* 1..k of the original history for the smallest k >= 0 such that the
\* remaining turns fit the budget or at most 2 turns remain; the retained
\* turns keep their relative order.
C9_OldestFirstMinimal ==
    pc = "trimmed" =>
        \E k \in removable(historyAtCall) :
            /\ conversationHistory = withoutOldest(historyAtCall, k)
            /\ stopsWithAtMostTwo(historyAtCall, k, maxContextTokens)
            /\ \A j \in 0..(k - 1) :
                   ~stopsWithAtMostTwo(historyAtCall, j, maxContextTokens)

\* the example of the claim: five 1-token turns and a budget of 3
C9_Witness ==
    /\ pc = "trimmed"
    /\ maxContextTokens = 3
    /\ historyAtCall = <<Turn("system", <<"s">>), Turn("user", <<"A">>),
                         Turn("assistant", <<"B">>), Turn("user", <<"C">>),
                         Turn("assistant", <<"D">>)>>
    /\ conversationHistory = <<Turn("system", <<"s">>), Turn("user", <<"C">>),
                               Turn("assistant", <<"D">>)>>

----------------------------------------------------------------------------
(* Properties of sendMessage, checked under Spec *)

returned == pc \in {"replied", "failed"}

\* the history sendMessage found: the copy the outbound list starts with
historyBeforeCall == SubSeq(apiConversationHistory, 1, Len(apiConversationHistory) - 1)

appendedUserTurn == Turn("user", strip(userText))

appendedReplyTurn == Turn("assistant", response.reply)

newestUserContent(history) ==
    IF \E i \in 1..Len(history) : history[i].role = "user"
    THEN LET i == CHOOSE j \in 1..Len(history) :
                      /\ history[j].role = "user"
                      /\ \A k \in (j + 1)..Len(history) : history[k].role # "user"
         IN  Some(history[i].content)
    ELSE None

\* C2 as claimed: for every sendMessage(text, paths) call with non-empty
\* paths, when the call returns (with a reply or with an error string) the
\* newest turn with role user in ConversationHistory has content exactly
\* equal to text with surrounding whitespace stripped.
C2_NewestUserIsText ==
    (returned /\ filePathList # <<>>)
    => newestUserContent(conversationHistory) = Some(strip(userText))

\* the trimming after the reply evicts the user turn of the call: turn 0,
\* that turn and the reply together exceed the budget
userTurnEvicted ==
    /\ pc = "replied"
    /\ historyBeforeCall # <<>>
    /\ countTokens(<<historyBeforeCall[1], appendedUserTurn, appendedReplyTurn>>)
           > maxContextTokens

\* C2 amended: for every sendMessage(text, paths) call with non-empty paths,
\* when the call returns the user turn it appended has content exactly the
\* stripped text and is the newest turn with role user (the last turn after
\* an error, the turn before the reply after a success), unless turn 0, that
\* turn and the reply together exceed maxContextTokens: then the trimming
\* after the reply has evicted it and the history is [turn 0, reply].
C2_RedactedUserTurn ==
    (returned /\ filePathList # <<>>)
    => IF userTurnEvicted
       THEN conversationHistory = <<historyBeforeCall[1], appendedReplyTurn>>
       ELSE /\ newestUserContent(conversationHistory) = Some(strip(userText))
            /\ LET n == Len(conversationHistory)
                   i == IF pc = "failed" THEN n ELSE n - 1
               IN  i >= 1 /\ conversationHistory[i] = appendedUserTurn

\* a padded text sent with attachments that produce a block; the user turn
\* sits before the reply
C2_Witness ==
    /\ pc = "replied"
    /\ filePathList # <<>>
    /\ userText # strip(userText)
    /\ strip(userText) # <<>>
    /\ Contains(apiConversationHistory[Len(apiConversationHistory)].content,
                FILE_MARKER_START)
    /\ Len(conversationHistory) >= 3
    /\ conversationHistory[Len(conversationHistory) - 1] = appendedUserTurn

Range(f) == {f[i] : i \in DOMAIN f}

\* every piece of text the reader produces for the attachment lists
IngestionText ==
    UNION {Range(readFilesContent(JoinWith(paths, ","))) : paths \in FilePathLists}

noIngestion(history, ingestion) ==
    \A i \in 1..Len(history) : Range(history[i].content) \cap ingestion = {}

\* C3: after any sequence of sendMessage calls with any attachments, no turn
\* of ConversationHistory contains file-ingestion text, and neither does the
\* history ChatTab has handed to updateConversationHistory.
C3_NoIngestionInHistory ==
    LET ingestion == IngestionText
    IN  /\ noIngestion(conversationHistory, ingestion)
        /\ noIngestion(dbRow.conversation_history, ingestion)

\* a second send, with an ingestion block in the outbound list, after the
\* history of a first send was saved
C3_Witness ==
    /\ returned
    /\ Contains(apiConversationHistory[Len(apiConversationHistory)].content,
                FILE_MARKER_START)
    /\ conversationId = None
    /\ Len(dbRow.conversation_history) >= 2
    /\ conversationHistory[Len(conversationHistory)].role = "user"

attachmentBlock(paths) ==
    IF strip(JoinWith(paths, ",")) # <<>>
    THEN readFilesContent(JoinWith(paths, ","))
    ELSE <<>>

outboundUnchanged ==
    (pc = "calling" /\ pc' \in {"replied", "failed"})
    => apiConversationHistory' = apiConversationHistory

\* C4 as claimed, for a user text that has no surrounding whitespace (the
\* text ChatTab passes): the turn list that sendMessage passes to the remote
\* client equals ConversationHistory as it was immediately before the call,
\* followed by exactly one user turn whose content is the user text followed
\* by a newline and the file ingestion block when attachments produced a
\* non-empty block (and the user text alone otherwise); the trimming of the
\* same call never removes or changes any turn of that list.
C4_OutboundIsTextAndBlock ==
    [][ /\ (pc = "idle" /\ pc' = "calling" /\ userText' = strip(userText'))
           => apiConversationHistory' =
                  Append(conversationHistory,
                         Turn("user",
                              IF attachmentBlock(filePathList') # <<>>
                              THEN userText' \o <<"\n">>
                                   \o attachmentBlock(filePathList')
                              ELSE userText'))
        /\ outboundUnchanged ]_vars

\* C4 amended: the turn list that sendMessage passes to the remote client
\* equals ConversationHistory as it was immediately before the call,
\* followed by exactly one user turn whose content is the stripped user
\* text followed by a newline and the file ingestion block stripped of its
\* surrounding whitespace when attachments produced a non-empty block (and
\* the stripped user text alone otherwise); the trimming of the same call
\* never removes or changes any turn of that list.
C4_OutboundIsStrippedTextAndBlock ==
    [][ /\ (pc = "idle" /\ pc' = "calling")
           => apiConversationHistory' =
                  Append(conversationHistory,
                         Turn("user",
                              IF attachmentBlock(filePathList') # <<>>
                              THEN strip(userText') \o <<"\n">>
                                   \o strip(attachmentBlock(filePathList'))
                              ELSE strip(userText')))
        /\ outboundUnchanged ]_vars

\* the call has trimmed the history while its outbound list, which carries
\* an ingestion block, still holds every turn
C4_Witness ==
    /\ returned
    /\ Contains(apiConversationHistory[Len(apiConversationHistory)].content,
                FILE_MARKER_START)
    /\ Len(apiConversationHistory) = MaxTurns
    /\ Len(conversationHistory) < Len(apiConversationHistory)

\* C5: if the remote call fails with an error whose message is m,
\* sendMessage returns exactly "Error during API call: m", and
\* ConversationHistory is the pre-call history plus the redacted user turn,
\* trimmed to the budget, with no assistant turn appended by the call.
C5_FailureKeepsUserTurn ==
    pc = "failed" =>
        /\ result = Some(<<"Error during API call: ">> \o response.message)
        /\ conversationHistory =
               trimConversationHistory(Append(historyBeforeCall, appendedUserTurn),
                                       maxContextTokens)
        /\ conversationHistory[Len(conversationHistory)] = appendedUserTurn

\* the scenario of the tests: the setup turn and the user turn, nothing else
C5_Witness ==
    /\ pc = "failed"
    /\ response.message = <<"boom">>
    /\ filePathList = <<>>
    /\ conversationHistory = <<Turn("user", SystemPrompt), Turn("user", <<"a">>)>>

\* C6: on a successful remote call sendMessage returns the reply text
\* unchanged, and ConversationHistory equals
\* trim(trim(H + [user: stripped text]) + [assistant: reply]) for the
\* pre-call history H; when the budget is never exceeded this is H followed
\* by the user turn and then the assistant turn.
C6_SuccessAppendsBoth ==
    pc = "replied" =>
        /\ result = Some(response.reply)
        /\ conversationHistory =
               trimConversationHistory(
                   Append(trimConversationHistory(
                              Append(historyBeforeCall, appendedUserTurn),
                              maxContextTokens),
                          appendedReplyTurn),
                   maxContextTokens)
        /\ countTokens(historyBeforeCall \o <<appendedUserTurn, appendedReplyTurn>>)
               <= maxContextTokens
           => conversationHistory =
                  historyBeforeCall \o <<appendedUserTurn, appendedReplyTurn>>

\* a reply with leading whitespace, appended after both trimmings removed
\* turns of the pre-call history
C6_Witness ==
    /\ pc = "replied"
    /\ response.reply # strip(response.reply)
    /\ Len(historyBeforeCall) >= 3
    /\ Len(conversationHistory) = 3
    /\ conversationHistory[3] = appendedReplyTurn
    /\ conversationHistory[2] = appendedUserTurn

\* C8: the turn at index 0 is never removed: whatever trimConversationHistory
\* and sendMessage do to a history with at least one turn, its turn at index
\* 0 is the same turn afterwards (only loadConversationHistory replaces it).
C8_FirstTurnKept ==
    [][ \/ loadConversationHistory
        \/ conversationHistory # <<>>
           => /\ conversationHistory' # <<>>
              /\ conversationHistory'[1] = conversationHistory[1] ]_vars

\* a call has evicted turns and turn 0 is still the one the call found
C8_Witness ==
    /\ pc = "replied"
    /\ Len(historyBeforeCall) >= 3
    /\ Len(conversationHistory) = 2
    /\ conversationHistory[1] = historyBeforeCall[1]

\* C10: lastTotalTokens is 0 at construction and changes only inside a
\* successful sendMessage whose response reports usage, where it becomes that
\* response's total token count; a failed call, a response without usage,
\* trimming, loadConversationHistory and generateSummary leave it unchanged.
C10_TokenAccounting ==
    /\ lastTotalTokens = 0
    /\ [][ /\ lastTotalTokens' # lastTotalTokens
              => /\ pc = "calling"
                 /\ pc' = "replied"
                 /\ response'.usage # None
           /\ (pc = "calling" /\ pc' = "replied" /\ response'.usage # None)
              => lastTotalTokens' = response'.usage[1] ]_vars

\* a response without usage after one that reported 9 tokens
C10_Witness ==
    /\ pc = "replied"
    /\ response.usage = None
    /\ lastTotalTokens = 9

----------------------------------------------------------------------------
(* Properties of the file reader, checked under SpecFiles *)

readsFile == readCall.op = "_readSingleFile" /\ exists(readCall.path)
                 /\ ~isdir(readCall.path)

\* C11: the single-file reader applied to a .docx or PDF file whose text
\* extraction fails returns the empty string, so that the file contributes
\* nothing to the ingestion block, and no error is propagated.
C11_FailedExtractionIsEmpty ==
    ( /\ readsFile
      /\ Disk[readCall.path].size <= maxFileSize
      /\ Disk[readCall.path].ext \in {".docx", ".DOCX", ".pdf"}
      /\ ~Disk[readCall.path].extractable )
    => readCall.text = <<>>

\* the spellings of denylisted extensions among the files of the disk
DeniedExtensions == BINARY_EXTENSIONS \cup {".PNG"}

\* C12: the single-file reader returns the empty string for every file whose
\* size exceeds maxFileSize and for every file whose extension, compared
\* case-insensitively, is in the binary denylist, whatever the file contains;
\* the size check is decided first and in neither case is the content read
\* or extracted.
C12_SkippedFiles ==
    readsFile =>
        /\ Disk[readCall.path].size > maxFileSize
               => /\ readCall.text = <<>>
                  /\ readCall.accesses = <<"getsize", "too large">>
        /\ ( /\ Disk[readCall.path].size <= maxFileSize
             /\ Disk[readCall.path].ext \in DeniedExtensions )
               => /\ readCall.text = <<>>
                  /\ readCall.accesses = <<"getsize", "binary file">>

\* a readable text behind an upper-case denylisted extension, read and skipped
C12_Witness ==
    /\ readsFile
    /\ readCall.path = <<"f">>
    /\ fileF.ext = ".PNG"
    /\ fileF.size <= maxFileSize
    /\ fileF.utf8
    /\ fileF.text # <<>>
    /\ readCall.text = <<>>

\* what one entry of the list contributes
fragmentOf(entry) ==
    LET filePath == strip(entry)
    IN  IF filePath = <<>> \/ ~exists(filePath) THEN <<>>
        ELSE IF isdir(filePath) THEN walk(filePath, filePath)
        ELSE _readSingleFile(filePath, <<>>)

\* C13: readFilesContent splits its input on commas, strips each entry,
\* ignores empty entries, skips entries that do not exist without raising,
\* and returns the concatenation of the non-empty fragments of the remaining
\* entries in input order (a file's fragment comes from the single-file
\* reader called with no base directory).
C13_ReadFilesContent ==
    readCall.op = "readFilesContent" =>
        readCall.text =
            Concat([i \in 1..Len(readCall.entries) |-> fragmentOf(readCall.entries[i])])

\* an entry that does not exist before a file named with blanks around it
C13_Witness ==
    /\ readCall.op = "readFilesContent"
    /\ readCall.entries = <<MissingPath, <<" ", "f", " ">> >>
    /\ readCall.text # <<>>

IsInfix(part, whole) ==
    \E i \in 0..(Len(whole) - Len(part)) : SubSeq(whole, i + 1, i + Len(part)) = part

RECURSIVE SumOfLengths(_, _)
SumOfLengths(paths, baseDir) ==
    IF paths = {} THEN 0
    ELSE LET p == CHOOSE q \in paths : TRUE
         IN  Len(_readSingleFile(p, baseDir)) + SumOfLengths(paths \ {p}, baseDir)

\* the files of the disk below a directory
filesBelow(dir) ==
    {p \in FilePaths : Len(p) > Len(dir) /\ SubSeq(p, 1, Len(dir)) = dir}

\* the file is in a subdirectory of dir, at any depth, that the denylist names
inDeniedFolder(p, dir) ==
    \E i \in (Len(dir) + 1)..(Len(p) - 1) : p[i] \in FOLDER_BLACKLIST

\* C14: when readFilesContent is given a directory, no file located under a
\* subdirectory whose name is in the folder denylist, at any depth,
\* contributes to the result, while every other file of the tree is passed
\* to the single-file reader with that directory as base.
C14_DeniedFoldersSkipped ==
    ( /\ readCall.op = "readFilesContent"
      /\ Len(readCall.entries) = 1
      /\ isdir(strip(readCall.entries[1])) )
    => LET dir == strip(readCall.entries[1])
           kept == {p \in filesBelow(dir) : ~inDeniedFolder(p, dir)}
       IN  /\ \A p \in kept : IsInfix(_readSingleFile(p, dir), readCall.text)
           /\ \A p \in filesBelow(dir) \ kept :
                  ~IsInfix(<<"[Content from ">> \o PathText(p) \o <<"]:">>,
                           readCall.text)
           /\ Len(readCall.text) = SumOfLengths(kept, dir)

\* the tree of the disk, with .git at depth 1 and __pycache__ at depth 2
C14_Witness ==
    /\ readCall.op = "readFilesContent"
    /\ readCall.entries = << <<"dir">> >>
    /\ IsInfix(_readSingleFile(<<"dir", "sub", "b.txt">>, <<"dir">>), readCall.text)
    /\ ~Contains(readCall.text, "i")

----------------------------------------------------------------------------
(* Properties of the store, checked under SpecStore *)

fileRowsOf(filePath) == {i \in 1..Len(files) : files[i].file_path = filePath}

linkRowsOf(convId, fileId) ==
    {i \in 1..Len(conversation_attachements) :
        conversation_attachements[i] =
            [conversation_id |-> convId, file_id |-> fileId]}

\* C15: recordAttachmentsForConversation is idempotent per path: after
\* calling it any number of times with the same path for the same
\* conversation there is exactly one file record for that path and exactly
\* one attachment link between the conversation and that file; attaching the
\* same path to a second conversation reuses the same file record (no path
\* ever has two file records, no link is ever stored twice).
C15_AttachIsIdempotent ==
    /\ \A filePath \in AttachedPaths : Cardinality(fileRowsOf(filePath)) <= 1
    /\ \A convId \in ConversationIds : \A i \in 1..Len(files) :
           Cardinality(linkRowsOf(convId, files[i].id)) <= 1
    /\ ( /\ storeCall.op = "recordAttachmentsForConversation"
         /\ storeCall.conversationId \in column(conversations, "id") )
       => \A k \in 1..Len(storeCall.filePaths) :
              /\ Cardinality(fileRowsOf(storeCall.filePaths[k])) = 1
              /\ \A i \in fileRowsOf(storeCall.filePaths[k]) :
                     Cardinality(linkRowsOf(storeCall.conversationId, files[i].id)) = 1

\* the same path given twice in a call for the second conversation, the
\* first conversation being linked to it already
C15_Witness ==
    /\ storeCall.op = "recordAttachmentsForConversation"
    /\ storeCall.conversationId = 2
    /\ storeCall.filePaths = <<"p", "p">>
    /\ Cardinality(fileRowsOf("p")) = 1
    /\ \A i \in fileRowsOf("p") :
           /\ Cardinality(linkRowsOf(1, files[i].id)) = 1
           /\ Cardinality(linkRowsOf(2, files[i].id)) = 1

\* C16: deleteConversationById(id) removes the conversation row and every
\* attachment link of that conversation, then deletes exactly the file
\* records that have no remaining link; file records still linked to another
\* conversation, and every other conversation's row and links, are
\* unchanged, and getConversationById(id) is absent afterwards.
C16_DeleteCascades ==
    [][storeCall'.op = "deleteConversationById" =>
          /\ conversations' =
                 SelectSeq(conversations,
                           LAMBDA row : row.id # storeCall'.conversationId)
          /\ conversation_attachements' =
                 SelectSeq(conversation_attachements,
                           LAMBDA row : row.conversation_id # storeCall'.conversationId)
          /\ files' =
                 SelectSeq(files,
                           LAMBDA row :
                               \E i \in 1..Len(conversation_attachements') :
                                   conversation_attachements'[i].file_id = row.id)
          /\ storeCall'.conversationId \notin column(conversations', "id")
    ]_vars

\* a conversation deleted whose own file record went while the record it
\* shared with the other conversation stayed
C16_Witness ==
    /\ storeCall.op = "deleteConversationById"
    /\ Len(conversations) = 1
    /\ storeCall.conversationId \notin column(conversations, "id")
    /\ sqlite_sequence.files = 2
    /\ Len(files) = 1
    /\ Len(conversation_attachements) = 1

----------------------------------------------------------------------------
(* Properties of the construction, checked under SpecConfig *)

isAzure == deploymentConfig.type \in {"azure", "Azure"}

isOpenAi == deploymentConfig.type = "openai"

keyMissing ==
    \/ isAzure /\ falsy(environ.AZURE_OPENAI_API_KEY)
    \/ isOpenAi /\ falsy(environ.OPENAI_API_KEY)

fieldMissing ==
    \/ /\ isAzure
       /\ \/ deploymentConfig.endpoint = ""
          \/ deploymentConfig.deploymentName = ""
          \/ deploymentConfig.apiVersion = ""
    \/ /\ isOpenAi
       /\ \/ deploymentConfig.endpoint = ""
          \/ deploymentConfig.deploymentName = ""

\* C17: client construction fails with a ValueError, before any client
\* object exists or any network call is made, whenever the API key variable
\* for the deployment type is missing or empty, or an azure config has an
\* empty endpoint, deploymentName or apiVersion, or an openai config has an
\* empty endpoint or deploymentName; the ChatSession constructor propagates
\* that error, so no session is created.
C17_ConstructionFailsFast ==
    (construction.stage # "none" /\ (keyMissing \/ fieldMissing))
    => /\ construction.stage = "raised"
       /\ construction.error # None
       /\ construction.error[1].type = "ValueError"
       /\ construction.client = None
       /\ construction.calls = <<>>
       /\ conversationHistory = <<>>

\* an openai configuration with its key set and no deploymentName
C17_Witness ==
    /\ construction.stage = "raised"
    /\ isOpenAi
    /\ ~keyMissing
    /\ deploymentConfig.deploymentName = ""
    /\ deploymentConfig.endpoint # ""

\* C18: for a deployment config whose type is neither "azure" nor "openai",
\* initOpenAiClient raises a ValueError whose message contains "Unknown
\* deployment type: <type>", including when AZURE_OPENAI_API_KEY is the only
\* API key set in the environment.
C18_UnknownTypeReported ==
    ( /\ construction.stage # "none"
      /\ deploymentConfig.type = "unknown"
      /\ ~falsy(environ.AZURE_OPENAI_API_KEY) )
    => construction.error =
           Some([type |-> "ValueError",
                 message |-> <<"Unknown deployment type: ", "unknown">>])

----------------------------------------------------------------------------
(* Properties of generateSummary, checked under Spec *)

\* a step that is a call of generateSummary
summaryStep ==
    /\ summaryCall' # NoSummaryCall
    /\ <<summary, summaryCall>>' # <<summary, summaryCall>>

\* C19: generateSummary is a side request: whether the remote call succeeds
\* or fails it leaves ConversationHistory and lastTotalTokens unchanged and
\* performs no persistence call; it sends a single user turn built from the
\* concatenated history text, returns the stripped reply on success and an
\* absent result (never an exception, never an error string) on failure.
C19_SummaryIsSideRequest ==
    [][summaryStep =>
          /\ UNCHANGED <<conversationHistory, lastTotalTokens, tokenCalls, dbRow>>
          /\ Len(summaryCall'.messages) = 1
          /\ summaryCall'.messages[1].role = "user"
          /\ summaryCall'.messages[1].content =
                 <<SummaryInstruction>>
                 \o JoinWith([i \in 1..Len(conversationHistory) |->
                                 conversationHistory[i].content], "\n")
          /\ summaryCall'.response.kind = "ok"
                 => summary' = Some(strip(summaryCall'.response.reply))
          /\ summaryCall'.response.kind = "error" => summary' = None
    ]_vars

\* a summary asked after an exchange, the remote call failing
C19_Witness ==
    /\ summaryCall.response.kind = "error"
    /\ summary = None
    /\ Len(conversationHistory) >= 3
    /\ Len(summaryCall.messages) = 1

----------------------------------------------------------------------------
(* Properties of the tab, checked under SpecTab *)

\* C20: at any time at most one sendMessage call is in progress on a given
\* ChatSession: from the moment ChatTab.onSendClicked starts a worker until
\* resetAfterSend runs, the send button and the input are disabled, so no
\* second worker for the same session can be started by any sequence of
\* user actions.
C20_OneSendAtATime ==
    /\ Len(workers) <= 1
    /\ workers # <<>> => ~ui.sendButton /\ ~ui.userInput
    /\ pc # "idle" => workers # <<>>

\* the worker's call waiting for the remote model, the widgets disabled
C20_Witness ==
    /\ pc = "calling"
    /\ Len(workers) = 1
    /\ userText = workers[1].userText
    /\ ~ui.sendButton
    /\ ~ui.userInput

----------------------------------------------------------------------------
(* The session and its row *)

\* C21: while a conversation row exists for the open session (the row of this
\* specification is never deleted), the session's conversationId is the id
\* of that row, and a successful sendMessage leaves the post-reply token
\* count in the row.
C21_SessionKnowsItsRow ==
    /\ conversationId = Some(RowId)
    /\ pc = "replied" => dbRow.tokens = countTokens(conversationHistory)

----------------------------------------------------------------------------
(* The queries of the session *)

\* the token lengths of the contents, added up by position
SumOfTokenLengths(history) ==
    LET upTo[i \in 0..Len(history)] ==
            IF i = 0 THEN 0
            ELSE upTo[i - 1] + (IF "content" \in DOMAIN history[i]
                                THEN Len(history[i].content)
                                ELSE 0)
    IN  upTo[Len(history)]

\* C22: countTokens() returns the sum, over the turns now in
\* ConversationHistory, of the token length of the content (0 for a turn
\* without content), whatever appends, trims and loads came before, and it
\* leaves the history as it was.
C22_CountTokensIsTheSum ==
    [][ query'.op = "countTokens"
            => /\ query'.value = Some(SumOfTokenLengths(conversationHistory'))
               /\ conversationHistory' = conversationHistory ]_vars

\* a count taken after a load brought in a turn without content and a trim
\* evicted a turn
C22_Witness ==
    /\ query.op = "countTokens"
    /\ Len(conversationHistory) < Len(dbRow.conversation_history)
    /\ \E i \in 1..Len(conversationHistory) : "content" \notin DOMAIN conversationHistory[i]
    /\ query.value[1] > 0

\* the positions of the user turns that no user turn precedes
firstUserPositions(history) ==
    { i \in 1..Len(history) :
        /\ history[i].role = "user"
        /\ \A k \in 1..(i - 1) : history[k].role # "user" }

\* the text of a turn, empty when the turn carries none
textAt(history, i) ==
    IF "content" \in DOMAIN history[i] THEN history[i].content ELSE <<>>

\* C23 as stated: getFirstUserMessage() returns the content of the
\* lowest-index user turn of ConversationHistory, or an absent result when
\* no turn has role user, and leaves the history unchanged.
C23_FirstUserContent ==
    [][ query'.op = "getFirstUserMessage"
            => /\ conversationHistory' = conversationHistory
               /\ firstUserPositions(conversationHistory) = {}
                      => query'.value = None
               /\ \A i \in firstUserPositions(conversationHistory) :
                      query'.value = Some(textAt(conversationHistory, i)) ]_vars

\* C23: getFirstUserMessage() returns the content of the lowest-index user
\* turn of ConversationHistory with its surrounding whitespace stripped (the
\* empty text for a user turn without content), or an absent result when no
\* turn has role user, and leaves the history unchanged.
C23_FirstUserStripped ==
    [][ query'.op = "getFirstUserMessage"
            => /\ conversationHistory' = conversationHistory
               /\ firstUserPositions(conversationHistory) = {}
                      => query'.value = None
               /\ \A i \in firstUserPositions(conversationHistory) :
                      query'.value = Some(strip(textAt(conversationHistory, i))) ]_vars

\* the first user turn comes after an assistant turn and before another user
\* turn, and its content is padded
C23_Witness ==
    /\ query.op = "getFirstUserMessage"
    /\ Len(conversationHistory) = 3
    /\ conversationHistory[1].role = "assistant"
    /\ conversationHistory[2] = Turn("user", <<" ", "a", " ">>)
    /\ conversationHistory[3] = Turn("user", <<"c", "c">>)
    /\ query.value = Some(<<"a">>)

----------------------------------------------------------------------------
(* The token count in the store *)

\* C24 as stated: with a store and a conversation id, a successful
\* sendMessage calls updateConversationTokens exactly twice, first with the
\* reported usage and then with the post-reply token count, which is the
\* value left in the row; a failed sendMessage makes no such call.
C24_TwoTokenUpdates ==
    persists =>
        /\ pc = "replied"
               => /\ Len(tokenCalls) = 2
                  /\ tokenCalls[1] = lastTotalTokens
                  /\ tokenCalls[2] = countTokens(conversationHistory)
                  /\ dbRow.tokens = countTokens(conversationHistory)
        /\ pc = "failed" => tokenCalls = <<>>

\* C24: with a store and a conversation id, a successful sendMessage calls
\* updateConversationTokens with the reported usage first, when the response
\* reports usage, and then, always, with the post-reply token count, which
\* is the value left in the row: two calls for a response with usage, one
\* for a response without; a failed sendMessage makes no such call.
C24_TokenUpdates ==
    persists =>
        /\ pc = "replied"
               => /\ tokenCalls =
                         (IF response.usage # None
                          THEN <<response.usage[1]>> ELSE <<>>)
                         \o <<countTokens(conversationHistory)>>
                  /\ response.usage # None => tokenCalls[1] = lastTotalTokens
                  /\ dbRow.tokens = countTokens(conversationHistory)
        /\ pc = "failed" => tokenCalls = <<>>

\* two updates with different values; the row holds the second
C24_Witness ==
    /\ persists
    /\ pc = "replied"
    /\ Len(tokenCalls) = 2
    /\ tokenCalls[1] # tokenCalls[2]
    /\ dbRow.tokens = tokenCalls[2]

----------------------------------------------------------------------------
(* The automatic title *)

\* the first n whitespace-separated words of a text, joined by single spaces
firstWords(text, n) ==
    LET ws == split(text)
    IN  JoinWith([i \in 1..(IF Len(ws) < n THEN Len(ws) ELSE n) |-> ws[i]], " ")

\* C25: for a session created by the constructor and changed only by
\* sendMessage, turn 0 stays the setup prompt with role user, so
\* getFirstUserMessage() is the stripped setup prompt and never a typed
\* message, and once onWorkerFinished has run the title of the row is the
\* first seven words of the setup prompt (the placeholder is kept for a
\* blank setup prompt).
C25_TitleFromSetupPrompt ==
    /\ conversationHistory[1] = Turn("user", systemPrompt)
    /\ getFirstUserMessage(conversationHistory) = Some(strip(systemPrompt))
    /\ query.op = "getFirstUserMessage" => query.value = Some(strip(systemPrompt))
    /\ Some(strip(systemPrompt)) \notin {Some(strip(t)) : t \in TitleTexts}
    /\ Len(dbRow.conversation_history) >= 2
           => dbRow.title = IF strip(systemPrompt) = <<>>
                            THEN PlaceholderTitle
                            ELSE firstWords(strip(systemPrompt), TitleWords)

\* after a send that trimmed the history to two turns, the row of a chat
\* with the padded eight-word setup prompt is titled with its first seven
\* words
C25_Witness ==
    /\ pc = "idle"
    /\ Len(split(systemPrompt)) > TitleWords
    /\ systemPrompt # strip(systemPrompt)
    /\ Len(dbRow.conversation_history) = 2
    /\ dbRow.conversation_history[2].role = "assistant"
    /\ dbRow.title = <<"s", " ", "t", " ", "u", " ", "v", " ", "w", " ", "x", " ", "y">>
    /\ query.op = "getFirstUserMessage"

----------------------------------------------------------------------------
(* The completion of a send *)

----------------------------------------------------------------------------
(* A conversation deleted while its worker is in flight *)

\* the rows of a table other than those of one conversation
otherRows(table, name, convId) ==
    SelectSeq(table, LAMBDA row : row[name] # convId)

\* the step is onWorkerFinished
workerFinishes == pc \in {"replied", "failed"} /\ pc' = "idle"

\* C27: an id that was given out and whose row is gone is never in the
\* table again, so a conversation deleted while its worker is in flight
\* stays deleted; and onWorkerFinished changes no row of another
\* conversation, no attachment link and no file record, and when the
\* conversation of its tab is gone it changes nothing in the store.
C27_DeletedStaysDeleted ==
    /\ [][\A id \in 1..sqlite_sequence.conversations :
              id \notin column(conversations, "id")
                  => id \notin column(conversations', "id")]_vars
    /\ [][workerFinishes
              => /\ otherRows(conversations', "id", RowId)
                        = otherRows(conversations, "id", RowId)
                 /\ conversation_attachements' = conversation_attachements
                 /\ files' = files
                 /\ sqlite_sequence' = sqlite_sequence
                 /\ ~rowStored => /\ conversations' = conversations
                                  /\ dbRow' = NoRow]_vars

\* the conversation of the tab was deleted after the worker was started, the
\* worker has completed, and another conversation with an attachment is listed
C27_Witness ==
    /\ pc = "replied"
    /\ workers # <<>>
    /\ ~rowStored
    /\ dbRow = NoRow
    /\ column(conversations, "id") = {2}
    /\ column(conversation_attachements, "conversation_id") = {2}
    /\ Len(files) = 1

----------------------------------------------------------------------------
(* The stored history after a send *)

\* C28: when onWorkerFinished completes and the row of the conversation is
\* in the table, the conversation_history of the row is the history of the
\* session; after a failed remote call the last turn of the stored history is
\* the user turn of the send, and no stored turn contains the error string
\* that sendMessage returned.
C28_StoredHistoryIsSessionHistory ==
    [][workerFinishes /\ rowStored'
          => /\ dbRow'.conversation_history = conversationHistory'
             /\ pc = "failed"
                    => LET stored == dbRow'.conversation_history
                       IN  /\ stored # <<>>
                           /\ stored[Len(stored)] = Turn("user", strip(userText))
                           /\ \A i \in 1..Len(stored) :
                                  ~IsInfix(result[1], stored[i].content)]_vars

\* a new chat whose first send failed: the row holds the setup prompt and
\* the user turn
C28_Witness ==
    /\ pc = "idle"
    /\ workers = <<>>
    /\ conversationId = None
    /\ rowStored
    /\ Len(conversationHistory) = 2
    /\ conversationHistory[2] = Turn("user", <<"a">>)
    /\ dbRow.conversation_history = conversationHistory

----------------------------------------------------------------------------
(* trimConversationHistory applied again *)

\* C29: trimConversationHistory changes nothing in a history that is within
\* the budget, and nothing in its own result when it is applied to it with
\* the same budget; what a call returns is a function of the history and
\* the budget it found, so two calls on equal histories with equal budgets
\* return equal histories.
C29_TrimIsIdempotent ==
    /\ [](pc = "trimmed"
             => /\ countTokens(historyAtCall) <= maxContextTokens
                       => conversationHistory = historyAtCall
                /\ trimConversationHistory(conversationHistory, maxContextTokens)
                       = conversationHistory)
    /\ [][pc = "idle" /\ pc' = "trimmed"
              => /\ conversationHistory'
                        = trimConversationHistory(conversationHistory,
                                                  maxContextTokens)
                 /\ maxContextTokens' = maxContextTokens]_vars

\* a call that evicted two turns of a history of MaxTrimLen turns to meet the
\* budget: a second call finds nothing to evict
C29_Witness ==
    /\ pc = "trimmed"
    /\ Len(historyAtCall) = MaxTrimLen
    /\ Len(conversationHistory) = MaxTrimLen - 2
    /\ countTokens(conversationHistory) = maxContextTokens
    /\ trimConversationHistory(conversationHistory, maxContextTokens)
           = conversationHistory

----------------------------------------------------------------------------
(* The number of evictions of one call *)

\* the turns one call of trimConversationHistory has removed
removals == Len(historyAtCall) - Len(conversationHistory)

\* C30: trimConversationHistory returns for every history and every budget,
\* histories of 0, 1 or 2 turns and budgets that no eviction can meet
\* included, and it has then removed at most max(0, length - 2) turns, where
\* length is the number of turns it found.
C30_TrimRemovesAtMostLengthLessTwo ==
    /\ pc = "idle" => ENABLED trimCall
    /\ pc = "trimmed" =>
           /\ removals >= 0
           /\ removals <= IF Len(historyAtCall) > 2 THEN Len(historyAtCall) - 2 ELSE 0
           /\ Len(historyAtCall) <= 2 => conversationHistory = historyAtCall

\* a budget of 0 and a history of MaxTrimLen turns: every turn that can be
\* removed was removed and the two that are left still exceed the budget
C30_Witness ==
    /\ pc = "trimmed"
    /\ maxContextTokens = 0
    /\ Len(historyAtCall) = MaxTrimLen
    /\ removals = MaxTrimLen - 2
    /\ countTokens(conversationHistory) > maxContextTokens

====
